---------------------------- MODULE Spec2Model ----------------------------
(***************************************************************************)
(* Model of the two command-line programs of kimeltech/mcp-chat:           *)
(*   validate_models.py  - the Model Validator (ModelValidator, main)      *)
(*   discover_models.py  - Catalog Fetcher, Model Filter, Config Exporter  *)
(*                                                                         *)
(* Python strings on which the code does character work (replace, lower,   *)
(* startswith, substring tests) are sequences of one-character strings.    *)
(* Optional values (None / missing dictionary key) are <<>> and <<v>>.     *)
(***************************************************************************)
EXTENDS Integers, Sequences, FiniteSets, TLC

VARIABLES
    pc,                \* position of the running program
    \* ---- validate_models.py ----
    api_key,           \* whether OPENROUTER_API_KEY could be resolved
    config_file,       \* "ok", "missing" or "malformed": what load_config meets
    registry,          \* config['models'] once load_config returned, in file order
    available_models,  \* ModelValidator.available_models: None or the lookup dict's keys
    idx,               \* 1-based position of main's for loop in the registry
    result,            \* the result dict validate_config_model is building, or None
    results,           \* main's results list
    calls,             \* the calls made so far: catalog fetches, existence checks, probes
    summary,           \* what print_summary printed, or None
    report,            \* content of model_validation_report.json, or None when not written
    exit_code,         \* the process exit status, or None while running
    \* ---- discover_models.py ----
    models_cache,      \* ModelDiscovery.models_cache: None or the cached list
    requests,          \* number of GET /models requests made by fetch_all_models
    fetch_log,         \* per fetch_all_models call: arguments, prior cache, what it did
    args,              \* the parsed command line of discover_models.py
    all_models,        \* main's all_models
    filtered_models,   \* main's filtered_models, or None before filtering
    config_models      \* what export_to_config_format wrote, or None

vvars_but_exit == <<api_key, config_file, registry, available_models, idx, result,
                    results, calls, summary, report>>
vvars == <<vvars_but_exit, exit_code>>
dvars == <<models_cache, requests, fetch_log, args, all_models, filtered_models,
           config_models>>
vars == <<pc, vvars, dvars>>

(***************************************************************************)
(* Python values                                                           *)
(***************************************************************************)
None == <<>>
Some(v) == <<v>>
Get(o, default) == IF o = <<>> THEN default ELSE o[1]

Min(a, b) == IF a <= b THEN a ELSE b

\* s[:n]
Take(s, n) == SubSeq(s, 1, Min(n, Len(s)))

\* str.lower() on the characters that occur in identifiers
LowerChar(c) ==
    CASE c = "A" -> "a" [] c = "B" -> "b" [] c = "C" -> "c" [] c = "D" -> "d"
      [] c = "E" -> "e" [] c = "F" -> "f" [] c = "G" -> "g" [] c = "H" -> "h"
      [] c = "I" -> "i" [] c = "J" -> "j" [] c = "K" -> "k" [] c = "L" -> "l"
      [] c = "M" -> "m" [] c = "N" -> "n" [] c = "O" -> "o" [] c = "P" -> "p"
      [] c = "Q" -> "q" [] c = "R" -> "r" [] c = "S" -> "s" [] c = "T" -> "t"
      [] c = "U" -> "u" [] c = "V" -> "v" [] c = "W" -> "w" [] c = "X" -> "x"
      [] c = "Y" -> "y" [] c = "Z" -> "z" [] OTHER -> c

Lower(s) == [i \in 1..Len(s) |-> LowerChar(s[i])]

\* sub in s, for Python strings
Contains(s, sub) ==
    \E i \in 0..(Len(s) - Len(sub)) : SubSeq(s, i + 1, i + Len(sub)) = sub

\* s.startswith(prefix)
StartsWith(s, prefix) ==
    Len(s) >= Len(prefix) /\ SubSeq(s, 1, Len(prefix)) = prefix

\* s.replace(old, new) for one-character old and new
Replace(s, old, new) == [i \in 1..Len(s) |-> IF s[i] = old THEN new ELSE s[i]]

\* sep.join(parts)
RECURSIVE Join(_, _)
Join(sep, parts) ==
    IF parts = <<>> THEN <<>>
    ELSE IF Len(parts) = 1 THEN parts[1]
    ELSE parts[1] \o sep \o Join(sep, Tail(parts))

\* f"{x:.1f}" for x = 100 * num / den with 0 <= num <= den, den > 0: the quotient
\* in tenths, rounded to nearest, ties to even (exact quarters are the only ties
\* and they need den to be a multiple of 16).
Tenths(num, den) ==
    LET q == (1000 * num) \div den
        r == (1000 * num) % den
    IN  IF 2 * r < den THEN q
        ELSE IF 2 * r > den THEN q + 1
        ELSE IF q % 2 = 0 THEN q ELSE q + 1

FormatPercent1f(num, den) ==
    LET t == Tenths(num, den)
    IN  ToString(t \div 10) \o "." \o ToString(t % 10) \o "%"

(***************************************************************************)
(* validate_models.py                                                      *)
(***************************************************************************)
\* Bounds of the validator runs
MaxRegistry == 4
MaxCatalog == 6

\* Catalog identifiers "o/g1" .. "o/g9" (the i-th is upper-cased when i is even)
Digit(i) == ToString(i)
CatalogId(i) ==
    IF i % 2 = 0 THEN <<"O", "/", "G", Digit(i)>> ELSE <<"o", "/", "g", Digit(i)>>

\* The body of a successful GET /models: data = the first n catalog objects
CatalogData(n) == [i \in 1..n |-> [id |-> CatalogId(i)]]

\* What the catalog request can do: raise (status error, transport error) or
\* answer with a list of model objects
CatalogResponses ==
    {[ok |-> FALSE, data |-> <<>>]} \cup
    {[ok |-> TRUE, data |-> CatalogData(n)] : n \in 0..MaxCatalog}

\* Upstream identifiers the registry may name: one the non-empty catalogs hold, a
\* fragment of every catalog identifier (in another case), and one unrelated
UpstreamIds ==
    { <<"o", "/", "g", "1">>, <<"G">>, <<"x", "/", "z">> }

RegistryEntry(u) ==
    [id |-> <<"c", "-">> \o u, name |-> u, modelId |-> u]

RECURSIVE SeqsUpTo(_, _)
SeqsUpTo(S, n) ==
    IF n = 0 THEN {<<>>}
    ELSE LET shorter == SeqsUpTo(S, n - 1)
         IN  shorter \cup {Append(s, x) : s \in {t \in shorter : Len(t) = n - 1}, x \in S}

Registries == SeqsUpTo({RegistryEntry(u) : u \in UpstreamIds}, MaxRegistry)

\* What chat.completions.create can do for one probe: reply with content, reply
\* with empty content, or raise
ProbeOutcomes ==
    { [raised |-> FALSE, text |-> "OK"],
      [raised |-> FALSE, text |-> ""],
      [raised |-> TRUE,  text |-> "Error code: 429"] }


\* {model['id']: model for model in data['data']}: insertion-ordered, a repeated
\* identifier keeps its first position and takes the last object
RECURSIVE DictFrom(_, _)
DictFrom(acc, data) ==
    IF data = <<>> THEN acc
    ELSE LET m == Head(data)
             at == {i \in 1..Len(acc) : acc[i].id = m.id}
         IN  DictFrom(IF at = {} THEN Append(acc, m)
                      ELSE [i \in 1..Len(acc) |-> IF i \in at THEN m ELSE acc[i]],
                      Tail(data))

\* fetch_available_models: the lookup dict, {} when the request raised
FetchAvailableModels(resp) ==
    IF resp.ok THEN DictFrom(<<>>, resp.data) ELSE <<>>

\* test_model_exists, line 61: "if self.available_models is None"
NeedsFetchTruthy(am) == am = None \/ am = Some(<<>>)
NeedsFetch(am) == am = None

\* test_model_exists, lines 64-69, on the fetched dict
TestModelExists(dict, model_id) ==
    LET hit == {i \in 1..Len(dict) : dict[i].id = model_id}
        keys == [i \in 1..Len(dict) |-> dict[i].id]
        IsSimilar(m) == Contains(Lower(m), Lower(model_id))
        similar == SelectSeq(keys, IsSimilar)
    IN  IF hit # {}
        THEN [exists |-> TRUE, info |-> dict[CHOOSE i \in hit : TRUE]]
        ELSE [exists |-> FALSE, info |-> [similar_models |-> Take(similar, 5)]]

\* test_model_call: (True, content or "Success") or (False, str(e))
TestModelCallGenericError(outcome) ==
    IF outcome.raised THEN [callable |-> FALSE, response |-> "Model call failed"]
    ELSE [callable |-> TRUE,
          response |-> IF outcome.text = "" THEN "Success" ELSE outcome.text]
TestModelCall(outcome) ==
    IF outcome.raised THEN [callable |-> FALSE, response |-> outcome.text]
    ELSE [callable |-> TRUE,
          response |-> IF outcome.text = "" THEN "Success" ELSE outcome.text]

\* validate_config_model, lines 98-107
InitialResult(model_config) ==
    [id |-> model_config.id, name |-> model_config.name,
     modelId |-> model_config.modelId, exists |-> FALSE, callable |-> FALSE,
     error |-> None, model_info |-> None, suggestion |-> None]

\* validate_config_model, line 125
Suggestion(similar_models) ==
    [text |-> "Try one of: ", models |-> Join(<<",", " ">>, Take(similar_models, 3))]

\* validate_config_model, lines 115-126: the probe is reached only when the
\* existence check found the model; otherwise the method returns
AfterExistenceAlwaysCall(exists) == "call"
AfterExistence(exists) == IF exists THEN "call" ELSE "return"

\* main, lines 197-230: key lookup, load_config, ModelValidator(api_key)
MainStart(models) ==
    /\ pc = "main"
    /\ IF ~api_key \/ config_file # "ok"
       THEN pc' = "done" /\ exit_code' = Some(1) /\ registry' = registry
       ELSE pc' = "loop" /\ exit_code' = exit_code /\ registry' = models
    /\ UNCHANGED <<api_key, config_file, available_models, idx, result,
                   results, calls, summary, report, dvars>>

\* The response argument of an existence check that makes no request
NoRequest == [ok |-> FALSE, data |-> <<>>]

\* main line 235 into validate_config_model lines 85-126: build the result, run
\* test_model_exists (with its lazy catalog fetch), and return when absent
ExistenceCheck(resp) ==
    /\ pc = "loop"
    /\ idx <= Len(registry)
    /\ LET model_config == registry[idx]
           fetch == NeedsFetch(available_models)
           dict == IF fetch THEN FetchAvailableModels(resp) ELSE available_models[1]
           test == TestModelExists(dict, model_config.modelId)
           r0 == InitialResult(model_config)
           r1 == [r0 EXCEPT !.exists = test.exists, !.model_info = Some(test.info)]
           r2 == IF ~test.exists /\ test.info.similar_models # <<>>
                 THEN [r1 EXCEPT !.suggestion = Some(Suggestion(test.info.similar_models))]
                 ELSE r1
       IN  /\ available_models' = Some(dict)
           /\ calls' = calls
                  \o (IF fetch THEN <<[op |-> "fetch", entry |-> idx, ok |-> resp.ok]>>
                      ELSE <<>>)
                  \o <<[op |-> "exists", entry |-> idx, ok |-> test.exists]>>
           /\ IF AfterExistence(test.exists) = "call"
              THEN /\ pc' = "call"
                   /\ result' = Some(r1)
                   /\ UNCHANGED <<results, idx>>
              ELSE /\ pc' = "loop"
                   /\ result' = None
                   /\ results' = Append(results, r2)
                   /\ idx' = idx + 1
    /\ UNCHANGED <<api_key, config_file, registry, summary, report, exit_code, dvars>>

\* validate_config_model lines 128-141 and main line 236: one probe, its outcome
\* recorded, the result appended
CallCheck(outcome) ==
    /\ pc = "call"
    /\ LET test == TestModelCall(outcome)
           r1 == [result[1] EXCEPT !.callable = test.callable]
           r2 == IF test.callable THEN r1
                 ELSE [r1 EXCEPT !.error = Some(test.response)]
       IN  /\ results' = Append(results, r2)
           /\ calls' = Append(calls, [op |-> "probe", entry |-> idx, ok |-> test.callable,
                                      raised |-> outcome.raised, text |-> outcome.text])
    /\ result' = None
    /\ idx' = idx + 1
    /\ pc' = "loop"
    /\ UNCHANGED <<api_key, config_file, registry, available_models, summary, report,
                   exit_code, dvars>>

\* print_summary, lines 164-165
IsExisting(r) == r.exists
IsCallable(r) == r.callable

\* main line 239, print_summary: the percentages of lines 169-170 divide by
\* len(results); with no results Python raises ZeroDivisionError, which nothing
\* catches, and the interpreter ends the process with status 1
PrintSummary ==
    /\ pc = "loop"
    /\ idx > Len(registry)
    /\ LET total == Len(results)
           exists_count == Len(SelectSeq(results, IsExisting))
           callable_count == Len(SelectSeq(results, IsCallable))
       IN  IF total = 0
           THEN /\ pc' = "done"
                /\ exit_code' = Some(1)
                /\ summary' = Some([error |-> "ZeroDivisionError"])
           ELSE /\ pc' = "report"
                /\ exit_code' = exit_code
                /\ summary' = Some([total |-> total,
                                    exists |-> FormatPercent1f(exists_count, total),
                                    callable |-> FormatPercent1f(callable_count, total)])
    /\ UNCHANGED <<api_key, config_file, registry, available_models, idx, result,
                   results, calls, report, dvars>>

\* main line 242: [r for r in results if not r['exists'] or not r['callable']]
IsFailedAbsentOnly(r) == ~r.exists
IsFailed(r) == ~r.exists \/ ~r.callable

\* main line 250
SuccessRate(n_results, n_failed) == FormatPercent1f(n_results - n_failed, n_results)

\* main lines 241-259: the report when something failed, then the exit status
ReportAndExit ==
    /\ pc = "report"
    /\ LET failed == SelectSeq(results, IsFailed)
       IN  IF failed # <<>>
           THEN /\ report' = Some([timestamp |-> "st_mtime",
                                   total_tested |-> Len(results),
                                   failed_models |-> failed,
                                   success_rate |-> SuccessRate(Len(results), Len(failed))])
                /\ exit_code' = Some(1)
           ELSE /\ report' = report
                /\ exit_code' = Some(0)
    /\ pc' = "done"
    /\ UNCHANGED <<api_key, config_file, registry, available_models, idx, result,
                   results, calls, summary, dvars>>

DiscoveryIdle ==
    /\ models_cache = None
    /\ requests = 0
    /\ fetch_log = <<>>
    /\ args = None
    /\ all_models = <<>>
    /\ filtered_models = None
    /\ config_models = None

InitValidator ==
    /\ pc = "main"
    /\ api_key \in BOOLEAN
    /\ config_file \in {"ok", "missing", "malformed"}
    /\ registry = <<>>
    /\ available_models = None
    /\ idx = 1
    /\ result = None
    /\ results = <<>>
    /\ calls = <<>>
    /\ summary = None
    /\ report = None
    /\ exit_code = None
    /\ DiscoveryIdle

NextValidator ==
    \/ pc = "main"
          /\ \E models \in (IF api_key /\ config_file = "ok" THEN Registries ELSE {<<>>}) :
                MainStart(models)
    \/ pc = "loop"
          /\ \E resp \in (IF NeedsFetch(available_models) THEN CatalogResponses
                           ELSE {NoRequest}) : ExistenceCheck(resp)
    \/ \E outcome \in ProbeOutcomes : CallCheck(outcome)
    \/ PrintSummary
    \/ ReportAndExit

SpecValidator == InitValidator /\ [][NextValidator]_vars


(***************************************************************************)
(* Properties of the validator                                             *)
(***************************************************************************)
\* The run got past key lookup and load_config and has ended
ValidatorRan == pc = "done" /\ api_key /\ config_file = "ok"

Positions(log, op) == {k \in 1..Len(log) : log[k].op = op}

FullySuccessful(r) == r.exists /\ r.callable

\* C1: the run ends with exit status 0 if and only if every registry entry ended
\* with exists = true and callable = true, and with a non-zero status otherwise.
C1_ExitZeroIffAllCallable ==
    ValidatorRan =>
        /\ exit_code # None
        /\ (exit_code = Some(0)) <=>
              /\ Len(results) = Len(registry)
              /\ \A i \in 1..Len(results) : FullySuccessful(results[i])

\* C2: with an empty registry the run completes without error: no catalog fetch,
\* no probe, the summary step finishes, no report is written, exit status 0.
C2_EmptyRegistrySucceeds ==
    (ValidatorRan /\ registry = <<>>) =>
        /\ calls = <<>>
        /\ summary # None /\ summary # Some([error |-> "ZeroDivisionError"])
        /\ report = None
        /\ exit_code = Some(0)

\* C3: an entry is probed only after its own existence check returned found, and
\* at most once; an entry that is not found is never probed; entries are handled
\* one after another in registry order (each checked once, each entry's calls
\* contiguous, and all of them once the run has ended).
C3_ProbeOnlyAfterFoundAtMostOnce ==
    LET probes == Positions(calls, "probe")
        checks == Positions(calls, "exists")
    IN  /\ \A k \in probes :
              /\ \E j \in checks : j < k /\ calls[j].entry = calls[k].entry /\ calls[j].ok
              /\ \A j \in probes : calls[j].entry = calls[k].entry => j = k
        /\ \A j \in checks : ~calls[j].ok => \A k \in probes : calls[k].entry # calls[j].entry
        /\ \A j, k \in checks : calls[j].entry = calls[k].entry => j = k
        /\ \A j, k \in 1..Len(calls) : j < k => calls[j].entry <= calls[k].entry
        /\ \A k \in 1..Len(calls) : calls[k].entry \in 1..Len(registry)
        /\ {calls[k].entry : k \in checks} = 1..(idx - (IF pc = "call" THEN 0 ELSE 1))
        /\ ValidatorRan => {calls[k].entry : k \in checks} = 1..Len(registry)

\* A run over three or more entries with a failed probe followed by further
\* entries, and an entry that was not found
C3_Witness ==
    /\ ValidatorRan
    /\ Len(registry) >= 3
    /\ \E k \in Positions(calls, "probe") : ~calls[k].ok /\ k < Len(calls)
    /\ \E j \in Positions(calls, "exists") : ~calls[j].ok

\* The i-th smallest element of a finite set of numbers, as a sequence
RECURSIVE Ascending(_)
Ascending(S) ==
    IF S = {} THEN <<>>
    ELSE LET lo == CHOOSE x \in S : \A y \in S : x <= y
         IN  <<lo>> \o Ascending(S \ {lo})

\* C4: the report is written iff some entry is not fully successful; then its
\* failed_models are exactly the absent and the uncallable entries in registry
\* order, total_tested is the number of registry entries and success_rate is
\* callable / total * 100 to one decimal (3 of 4: "75.0%"; one absent, one
\* uncallable, one callable: 2 failed entries).
C4_ReportIffFailureAndExact ==
    ValidatorRan =>
        LET bad == {i \in 1..Len(results) : ~FullySuccessful(results[i])}
            good == {i \in 1..Len(results) : results[i].callable}
            absent == {i \in 1..Len(results) : ~results[i].exists}
            uncallable == {i \in 1..Len(results) : results[i].exists /\ ~results[i].callable}
            order == Ascending(bad)
        IN  /\ (report # None) <=> (bad # {})
            /\ report # None =>
                  /\ Len(results) = Len(registry)
                  /\ report[1].total_tested = Len(registry)
                  /\ report[1].failed_models = [k \in 1..Len(order) |-> results[order[k]]]
                  /\ \A k \in 1..Len(order) :
                        report[1].failed_models[k].modelId = registry[order[k]].modelId
                  /\ report[1].success_rate = FormatPercent1f(Cardinality(good), Len(registry))
                  /\ (Cardinality(good) = 3 /\ Len(registry) = 4)
                        => report[1].success_rate = "75.0%"
                  /\ (Cardinality(absent) = 1 /\ Cardinality(uncallable) = 1
                        /\ Len(registry) = 3) => Len(report[1].failed_models) = 2

\* A run over four entries, three callable and one absent, with its report
C4_Witness ==
    /\ ValidatorRan
    /\ Len(registry) = 4
    /\ Cardinality({i \in 1..Len(results) : FullySuccessful(results[i])}) = 3
    /\ \E i \in 1..Len(results) : ~results[i].exists
    /\ report # None
    /\ report[1].success_rate = "75.0%"

CatalogFetchFailed == \E k \in Positions(calls, "fetch") : ~calls[k].ok

\* C5: when the catalog fetch fails the run is not aborted: every existence check
\* reports not found with no suggestions, nothing is probed, the fetch is not
\* attempted again, and the run reaches the summary and report and exits non-zero.
C5_FetchFailureDegrades ==
    CatalogFetchFailed =>
        /\ Cardinality(Positions(calls, "fetch")) = 1
        /\ Positions(calls, "probe") = {}
        /\ \A k \in Positions(calls, "exists") : ~calls[k].ok
        /\ \A i \in 1..Len(results) :
              /\ ~results[i].exists /\ ~results[i].callable
              /\ results[i].model_info = Some([similar_models |-> <<>>])
              /\ results[i].suggestion = None
        /\ pc # "done" => ENABLED NextValidator
        /\ pc = "done" =>
              /\ Len(results) = Len(registry)
              /\ summary # None /\ summary # Some([error |-> "ZeroDivisionError"])
              /\ report # None /\ Len(report[1].failed_models) = Len(registry)
              /\ exit_code = Some(1)

\* A finished run over two or more entries whose catalog fetch failed
C5_Witness ==
    /\ CatalogFetchFailed
    /\ pc = "done"
    /\ Len(registry) >= 2


\* The three terminal shapes of a result
IsAbsent(r) == ~r.exists /\ ~r.callable /\ r.error = None
IsExistsButUncallable(r) ==
    r.exists /\ ~r.callable /\ r.error # None /\ r.suggestion = None
IsCallableShape(r) ==
    r.exists /\ r.callable /\ r.error = None /\ r.suggestion = None

\* C11: every result validate_config_model returns is in exactly one of the
\* shapes absent (no error), exists_but_uncallable (error = the text the probe
\* raised, no suggestion) and callable (no error, no suggestion); callable
\* implies exists, and only absent results carry a suggestion.
C11_ResultsInOneTerminalShape ==
    \A i \in 1..Len(results) :
        LET r == results[i]
            shapes == {n \in {"absent", "exists_but_uncallable", "callable"} :
                          \/ n = "absent" /\ IsAbsent(r)
                          \/ n = "exists_but_uncallable" /\ IsExistsButUncallable(r)
                          \/ n = "callable" /\ IsCallableShape(r)}
            probes == {k \in Positions(calls, "probe") : calls[k].entry = i}
        IN  /\ Cardinality(shapes) = 1
            /\ r.callable => r.exists
            /\ r.suggestion # None => IsAbsent(r)
            /\ r.modelId = registry[i].modelId
            /\ IsAbsent(r) => probes = {}
            /\ IsExistsButUncallable(r) =>
                  \E k \in probes : calls[k].raised /\ r.error = Some(calls[k].text)
            /\ IsCallableShape(r) => \E k \in probes : ~calls[k].raised

\* A finished run with a result of each shape, the absent one with a suggestion
C11_Witness ==
    /\ ValidatorRan
    /\ \E i \in 1..Len(results) : IsAbsent(results[i]) /\ results[i].suggestion # None
    /\ \E i \in 1..Len(results) :
          IsExistsButUncallable(results[i]) /\ results[i].error = Some("Error code: 429")
    /\ \E i \in 1..Len(results) : IsCallableShape(results[i])

(***************************************************************************)
(* discover_models.py                                                      *)
(***************************************************************************)
\* Bounds of the discovery runs
MaxModels == 2
MaxRuns == 2
MaxFetchCalls == 3

\* filter_models line 120: "[:50]  # Take top 50 most recent"
RecentLimit == 50

\* String literals of discover_models.py
Slash == "/"
Dash == "-"
OrPrefix == <<"o", "r", "-">>
ImageTag == <<"i", "m", "a", "g", "e">>
ThinkingTag == <<":", "t", "h", "i", "n", "k", "i", "n", "g">>
ReasoningWord == <<"r", "e", "a", "s", "o", "n", "i", "n", "g">>
FromWord == <<" ", "f", "r", "o", "m", " ">>
ModelWord == <<"M", "o", "d", "e", "l">>
UnknownProvider == <<"U", "n", "k", "n", "o", "w", "n">>

\* export_to_config_format lines 188-199: provider_map, in its insertion order
ProviderMap ==
    << [key |-> <<"o", "p", "e", "n", "a", "i">>,     value |-> <<"O", "p", "e", "n", "A", "I">>],
       [key |-> <<"a", "n", "t", "h", "r", "o", "p", "i", "c">>,  value |-> <<"A", "n", "t", "h", "r", "o", "p", "i", "c">>],
       [key |-> <<"g", "o", "o", "g", "l", "e">>,     value |-> <<"G", "o", "o", "g", "l", "e">>],
       [key |-> <<"m", "e", "t", "a", "-", "l", "l", "a", "m", "a">>, value |-> <<"M", "e", "t", "a">>],
       [key |-> <<"d", "e", "e", "p", "s", "e", "e", "k">>,   value |-> <<"D", "e", "e", "p", "S", "e", "e", "k">>],
       [key |-> <<"q", "w", "e", "n">>,       value |-> <<"Q", "w", "e", "n">>],
       [key |-> <<"m", "i", "s", "t", "r", "a", "l", "a", "i">>,  value |-> <<"M", "i", "s", "t", "r", "a", "l">>],
       [key |-> <<"c", "o", "h", "e", "r", "e">>,     value |-> <<"C", "o", "h", "e", "r", "e">>],
       [key |-> <<"x", "-", "a", "i">>,       value |-> <<"x", "A", "I">>],
       [key |-> <<"p", "e", "r", "p", "l", "e", "x", "i", "t", "y">>, value |-> <<"P", "e", "r", "p", "l", "e", "x", "i", "t", "y">>] >>

\* Catalog objects as the API returns them. pricing_prompt is pricing.prompt in
\* millionths of a dollar per token, so that the code's "* 1000000" gives whole
\* dollars per million tokens; modality is architecture.modality. A missing key
\* is None.
GptRecord ==
    [id |-> <<"o", "p", "e", "n", "a", "i", "/", "g", "p", "t", "-", "4">>, name |-> Some(<<"G", "P", "T", "-", "4">>),
     description |-> Some(<<"R", "e", "a", "s", "o", "n", "i", "n", "g", " ", "L", "L", "M">>), pricing_prompt |-> Some(1),
     context_length |-> Some(8), supported_parameters |-> Some(<<"tools", "response_format">>),
     modality |-> Some(<<"t", "e", "x", "t", "+", "i", "m", "a", "g", "e", "-", ">", "t", "e", "x", "t">>), created |-> Some(2)]
ClaudeRecord ==
    [id |-> <<"A", "n", "t", "h", "r", "o", "p", "i", "c", "/", "c", "l", "a", "u", "d", "e", "-", "x", ":", "t", "h", "i", "n", "k", "i", "n", "g">>, name |-> Some(<<"C", "l", "a", "u", "d", "e", " ", "X">>),
     description |-> None, pricing_prompt |-> None,
     context_length |-> None, supported_parameters |-> None,
     modality |-> None, created |-> None]
CustomRecord ==
    [id |-> <<"o", "r", "-", "c", "u", "s", "t", "o", "m", "/", "m", "o", "d", "e", "l">>, name |-> None,
     description |-> Some(<<"p", "l", "a", "i", "n">>), pricing_prompt |-> Some(0),
     context_length |-> Some(4), supported_parameters |-> Some(<<"functions">>),
     modality |-> Some(<<"t", "e", "x", "t", "-", ">", "t", "e", "x", "t">>), created |-> Some(3)]
GrokRecord ==
    [id |-> <<"x", "-", "a", "i", "/", "g", "r", "o", "k">>, name |-> Some(<<"G", "r", "o", "k", " ", "(", "n", "o", "t", " ", "G", "P", "T", ")">>),
     description |-> Some(<<>>), pricing_prompt |-> Some(3),
     context_length |-> Some(16), supported_parameters |-> Some(<<"tools">>),
     modality |-> Some(<<"i", "m", "a", "g", "e">>), created |-> Some(0)]

ModelRecords == {GptRecord, ClaudeRecord, CustomRecord, GrokRecord}

\* Catalogs of up to MaxModels objects, in any order, repeats included
ShortCatalogs == SeqsUpTo(ModelRecords, MaxModels)

\* Catalogs made of up to MaxRuns runs of one object, each of length 1 or 50, so
\* that more than 50 objects can match
Repeat(m, n) == [i \in 1..n |-> m]
RECURSIVE Expand(_)
Expand(runs) ==
    IF runs = <<>> THEN <<>>
    ELSE Repeat(Head(runs)[1], Head(runs)[2]) \o Expand(Tail(runs))
LongRecords == {GptRecord, ClaudeRecord, CustomRecord}
LongCatalogs ==
    {Expand(runs) : runs \in SeqsUpTo(LongRecords \X {1, RecentLimit}, MaxRuns)}

\* The catalogs a repeatedly called fetcher is answered with: empty or one object
FetcherCatalogs == {c \in ShortCatalogs : Len(c) <= 1}

\* What GET /models can do for the discovery program
Responses(catalogs) ==
    {[ok |-> FALSE, data |-> <<>>]} \cup {[ok |-> TRUE, data |-> c] : c \in catalogs}

\* Parsed command lines (lines 290-313). --provider takes nargs='+', so a
\* provider list, when given, is not empty.
ArgsOver(recent_values, reasoning_values, price_values, context_values, export_values) ==
    [tools : BOOLEAN, vision : BOOLEAN, reasoning : reasoning_values,
     max_price : price_values,
     min_context : context_values,
     provider : {None, Some(<<<<"a", "n", "t", "h", "r", "o", "p", "i", "c">>, <<"X", "-", "A", "I">>>>)},
     recent : recent_values,
     search : {None, Some(<<"G", "P", "T">>)},
     export : export_values]

AllArgs ==
    ArgsOver({None, Some(0), Some(30)}, BOOLEAN, {None, Some(0), Some(1)},
             {None, Some(0), Some(8)}, {None, Some(<<"o", "u", "t", ".", "j", "s", "o", "n">>)})
RecentArgs ==
    ArgsOver({Some(30)}, {FALSE}, {None, Some(1)}, {None, Some(8)}, {None})

\* Python truthiness of an optional list or string, and of an optional number
Truthy(o) == o # None /\ o[1] # <<>>
TruthyNumber(o) == o # None /\ o[1] # 0

\* fetch_all_models line 46: "if self.models_cache and not force_refresh"
CacheHit(cache, force_refresh) == Truthy(cache) /\ ~force_refresh

\* fetch_all_models, lines 44-64; sys.exit(1) when the request raises
FetchAllModels(force_refresh, resp) ==
    IF CacheHit(models_cache, force_refresh)
    THEN /\ fetch_log' = Append(fetch_log,
                [force_refresh |-> force_refresh, cache_before |-> models_cache,
                 requested |-> FALSE, returned |-> Some(models_cache[1]),
                 cache_after |-> models_cache])
         /\ UNCHANGED <<models_cache, requests, exit_code>>
    ELSE /\ requests' = requests + 1
         /\ fetch_log' = Append(fetch_log,
                [force_refresh |-> force_refresh, cache_before |-> models_cache,
                 requested |-> TRUE,
                 returned |-> IF resp.ok THEN Some(resp.data) ELSE None,
                 cache_after |-> IF resp.ok THEN Some(resp.data) ELSE models_cache])
         /\ IF resp.ok
            THEN models_cache' = Some(resp.data) /\ exit_code' = exit_code
            ELSE models_cache' = models_cache /\ exit_code' = Some(1)

ValidatorIdle ==
    /\ api_key = TRUE
    /\ config_file = "ok"
    /\ registry = <<>>
    /\ available_models = None
    /\ idx = 1
    /\ result = None
    /\ results = <<>>
    /\ calls = <<>>
    /\ summary = None
    /\ report = None

\* A ModelDiscovery object whose fetch_all_models is called again and again
FetcherCall(force_refresh, resp) ==
    /\ pc = "fetcher"
    /\ Len(fetch_log) < MaxFetchCalls
    /\ FetchAllModels(force_refresh, resp)
    /\ pc' = IF exit_code' = None THEN "fetcher" ELSE "done"
    /\ UNCHANGED <<vvars_but_exit, args, all_models, filtered_models, config_models>>

InitFetcher ==
    /\ pc = "fetcher"
    /\ exit_code = None
    /\ ValidatorIdle
    /\ DiscoveryIdle

NextFetcher ==
    \E force_refresh \in BOOLEAN, resp \in Responses(FetcherCatalogs) :
        FetcherCall(force_refresh, resp)

SpecFetcher == InitFetcher /\ [][NextFetcher]_vars

\* C6: after any successful fetch, a later call with force_refresh = false
\* returns the cached sequence without a network request, whatever the catalog
\* returned (an empty list included); a call with force_refresh = true always
\* makes a request and on success replaces the cache.
C6_CachedAfterSuccessfulFetch ==
    \A k \in 1..Len(fetch_log) :
        LET c == fetch_log[k]
            fetched_before ==
                \E j \in 1..(k - 1) : fetch_log[j].requested /\ fetch_log[j].returned # None
        IN  /\ (~c.force_refresh /\ fetched_before) =>
                  (~c.requested /\ c.returned = c.cache_before)
            /\ c.force_refresh =>
                  (c.requested /\ (c.returned # None => c.cache_after = c.returned))

(***************************************************************************)
(* Model Filter                                                            *)
(***************************************************************************)
\* m.get('supported_parameters', [])
SupportedParameters(m) == Get(m.supported_parameters, <<>>)
InList(x, list) == \E i \in 1..Len(list) : list[i] = x

\* line 83
HasTools(m) == InList("tools", SupportedParameters(m))

\* line 87: m.get('architecture', {}).get('modality', '').find('image') >= 0
HasVision(m) == Contains(Get(m.modality, <<>>), ImageTag)

\* line 93: float(m.get('pricing', {}).get('prompt', '999')) * 1000000, in dollars
\* per million tokens
MissingPrice == 999
PromptPricePerMillion(m) ==
    IF m.pricing_prompt = None THEN MissingPrice * 1000000 ELSE m.pricing_prompt[1]

\* line 90: "if max_input_price is not None"
PriceCriterionTruthy(max_input_price) == TruthyNumber(max_input_price)
PriceCriterionPresent(max_input_price) == max_input_price # None

\* line 100: m.get('context_length', 0)
ContextLength(m) == Get(m.context_length, 0)

\* lines 105-108
MatchesProvider(m, providers) ==
    LET provider_lower == [i \in 1..Len(providers) |-> Lower(providers[i])]
    IN  \E i \in 1..Len(provider_lower) : Contains(Lower(m.id), provider_lower[i])

\* line 118: m.get('created', 0) or 0
CreatedKey(m) == Get(m.created, 0)

\* sorted(filtered, key=..., reverse=True): descending by key; the sort is stable,
\* so objects with equal keys keep their order
Max(S) == CHOOSE x \in S : \A y \in S : y <= x
RECURSIVE SortedByCreated(_, _)
SortedByCreated(s, keys) ==
    IF keys = {} THEN <<>>
    ELSE LET hi == Max(keys)
             HasKey(m) == CreatedKey(m) = hi
         IN  SelectSeq(s, HasKey) \o SortedByCreated(s, keys \ {hi})

\* lines 116-120: sorted(...)[:50]
MostRecentUntruncated(filtered) ==
    SortedByCreated(filtered, {CreatedKey(filtered[i]) : i \in 1..Len(filtered)})
MostRecent(filtered) ==
    Take(SortedByCreated(filtered, {CreatedKey(filtered[i]) : i \in 1..Len(filtered)}),
         RecentLimit)

\* lines 124-128
MatchesSearch(m, search_term) ==
    LET search_lower == Lower(search_term)
    IN  \/ Contains(Lower(m.id), search_lower)
        \/ Contains(Lower(Get(m.name, <<>>)), search_lower)

\* A reasoning capability as the exporter recognises it (lines 219-220)
HasReasoning(m) ==
    \/ Contains(m.id, ThinkingTag)
    \/ Contains(Lower(Get(m.description, <<>>)), ReasoningWord)

\* filter_models had it honoured has_reasoning
FilterModelsRequiringReasoning(models, a) ==
    LET KeepTools(m) == HasTools(m)
        KeepVision(m) == HasVision(m)
        KeepPrice(m) == PromptPricePerMillion(m) <= a.max_price[1]
        KeepContext(m) == ContextLength(m) >= a.min_context[1]
        KeepProvider(m) == MatchesProvider(m, a.provider[1])
        KeepSearch(m) == MatchesSearch(m, a.search[1])
        KeepReasoning(m) == HasReasoning(m)
        f0 == IF a.reasoning THEN SelectSeq(models, KeepReasoning) ELSE models
        f1 == IF a.tools THEN SelectSeq(f0, KeepTools) ELSE f0
        f2 == IF a.vision THEN SelectSeq(f1, KeepVision) ELSE f1
        f3 == IF PriceCriterionPresent(a.max_price) THEN SelectSeq(f2, KeepPrice) ELSE f2
        f4 == IF TruthyNumber(a.min_context) THEN SelectSeq(f3, KeepContext) ELSE f3
        f5 == IF Truthy(a.provider) THEN SelectSeq(f4, KeepProvider) ELSE f4
        f6 == IF TruthyNumber(a.recent) THEN MostRecent(f5) ELSE f5
        f7 == IF Truthy(a.search) THEN SelectSeq(f6, KeepSearch) ELSE f6
    IN  f7

\* filter_models, lines 66-131: each step rebinds filtered; a list comprehension
\* [m for m in filtered if ...] is SelectSeq
FilterModels(models, a) ==
    LET KeepTools(m) == HasTools(m)
        KeepVision(m) == HasVision(m)
        KeepPrice(m) == PromptPricePerMillion(m) <= a.max_price[1]
        KeepContext(m) == ContextLength(m) >= a.min_context[1]
        KeepProvider(m) == MatchesProvider(m, a.provider[1])
        KeepSearch(m) == MatchesSearch(m, a.search[1])
        f1 == IF a.tools THEN SelectSeq(models, KeepTools) ELSE models
        f2 == IF a.vision THEN SelectSeq(f1, KeepVision) ELSE f1
        f3 == IF PriceCriterionPresent(a.max_price) THEN SelectSeq(f2, KeepPrice) ELSE f2
        f4 == IF TruthyNumber(a.min_context) THEN SelectSeq(f3, KeepContext) ELSE f3
        f5 == IF Truthy(a.provider) THEN SelectSeq(f4, KeepProvider) ELSE f4
        f6 == IF TruthyNumber(a.recent) THEN MostRecent(f5) ELSE f5
        f7 == IF Truthy(a.search) THEN SelectSeq(f6, KeepSearch) ELSE f6
    IN  f7

(***************************************************************************)
(* Config Exporter                                                         *)
(***************************************************************************)
\* lines 183-185
LocalIdAlwaysPrefixed(id) == OrPrefix \o Replace(id, Slash, Dash)
LocalId(id) ==
    LET model_id == Replace(id, Slash, Dash)
    IN  IF ~StartsWith(model_id, OrPrefix) THEN OrPrefix \o model_id ELSE model_id

\* lines 201-205: the first key of provider_map found in the lower-cased id
Provider(id) ==
    LET hits == {i \in 1..Len(ProviderMap) : Contains(Lower(id), ProviderMap[i].key)}
    IN  IF hits = {} THEN UnknownProvider
        ELSE ProviderMap[CHOOSE i \in hits : \A j \in hits : i <= j].value

\* lines 208-222
Capabilities(m) ==
    LET params == SupportedParameters(m)
    IN  (IF InList("tools", params) \/ InList("functions", params)
            THEN <<"Tools">> ELSE <<>>)
        \o (IF Contains(Get(m.modality, <<>>), ImageTag) THEN <<"Vision">> ELSE <<>>)
        \o (IF \/ Contains(m.id, ThinkingTag)
               \/ Contains(Lower(Get(m.description, <<>>)), ReasoningWord)
            THEN <<"Reasoning">> ELSE <<>>)
        \o <<"Streaming">>

\* lines 224-232
ConfigModel(m) ==
    [id |-> LocalId(m.id),
     name |-> Get(m.name, m.id),
     provider |-> Provider(m.id),
     modelId |-> m.id,
     description |-> Get(m.description, Get(m.name, ModelWord) \o FromWord \o Provider(m.id)),
     capabilities |-> Capabilities(m),
     enabled |-> FALSE]

\* export_to_config_format, lines 179-238: what json.dump writes
ExportSkippingUnknown(models) ==
    LET Known(m) == Provider(m.id) # UnknownProvider
        kept == SelectSeq(models, Known)
    IN  [i \in 1..Len(kept) |-> ConfigModel(kept[i])]
ExportToConfigFormat(models) == [i \in 1..Len(models) |-> ConfigModel(models[i])]

(***************************************************************************)
(* discover_models.py main                                                 *)
(***************************************************************************)
\* main lines 313-323: parse the command line, resolve the key, fetch the catalog
MainFetch(a, resp) ==
    /\ pc = "discover"
    /\ args' = Some(a)
    /\ FetchAllModels(FALSE, resp)
    /\ IF exit_code' = None
       THEN pc' = "filter" /\ all_models' = Get(fetch_log'[Len(fetch_log')].returned, <<>>)
       ELSE pc' = "done" /\ all_models' = all_models
    /\ UNCHANGED <<vvars_but_exit, filtered_models, config_models>>

\* main lines 326-340: filter and display
MainFilter ==
    /\ pc = "filter"
    /\ filtered_models' = Some(FilterModels(all_models, args[1]))
    /\ pc' = "export"
    /\ UNCHANGED <<vvars, models_cache, requests, fetch_log, args, all_models,
                   config_models>>

\* main lines 343-346: export when --export was given, then finish
MainExport ==
    /\ pc = "export"
    /\ config_models' = IF Truthy(args[1].export)
                        THEN Some(ExportToConfigFormat(filtered_models[1]))
                        ELSE config_models
    /\ pc' = "done"
    /\ UNCHANGED <<vvars, models_cache, requests, fetch_log, args, all_models,
                   filtered_models>>

InitDiscovery ==
    /\ pc = "discover"
    /\ exit_code = None
    /\ ValidatorIdle
    /\ DiscoveryIdle

NextDiscovery ==
    \/ pc = "discover"
          /\ \E a \in AllArgs, resp \in Responses(ShortCatalogs) : MainFetch(a, resp)
    \/ MainFilter
    \/ MainExport

SpecDiscovery == InitDiscovery /\ [][NextDiscovery]_vars

\* The same program on the catalogs with long runs, --recent given
NextRecent ==
    \/ pc = "discover"
          /\ \E a \in RecentArgs, resp \in Responses(LongCatalogs) : MainFetch(a, resp)
    \/ MainFilter
    \/ MainExport

SpecRecent == InitDiscovery /\ [][NextRecent]_vars

(***************************************************************************)
(* Properties of the discovery program                                     *)
(***************************************************************************)
Filtered == pc \in {"export", "done"} /\ filtered_models # None

\* The criteria as the specification words them, each on one catalog object
ToolsCriterion(m) ==
    m.supported_parameters # None /\ InList("tools", m.supported_parameters[1])
VisionCriterion(m) == m.modality # None /\ Contains(m.modality[1], <<"i", "m", "a", "g", "e">>)
PriceCriterion(m, max_price) ==
    (IF m.pricing_prompt = None THEN 999 * 1000000 ELSE m.pricing_prompt[1]) <= max_price
ContextCriterion(m, min_context) ==
    (IF m.context_length = None THEN 0 ELSE m.context_length[1]) >= min_context
ProviderCriterion(m, providers) ==
    \E i \in 1..Len(providers) : Contains(Lower(m.id), Lower(providers[i]))
SearchCriterion(m, term) ==
    \/ Contains(Lower(m.id), Lower(term))
    \/ (m.name # None /\ Contains(Lower(m.name[1]), Lower(term)))

\* Every present criterion but recency and the search term
MeetsBasicCriteria(m, a) ==
    /\ a.tools => ToolsCriterion(m)
    /\ a.vision => VisionCriterion(m)
    /\ a.max_price # None => PriceCriterion(m, a.max_price[1])
    /\ a.min_context # None => ContextCriterion(m, a.min_context[1])
    /\ a.provider # None => ProviderCriterion(m, a.provider[1])

MeetsSearch(m, a) == a.search # None => SearchCriterion(m, a.search[1])

Keys(s) == {CreatedKey(s[i]) : i \in 1..Len(s)}
CountWithKey(s, k) == Cardinality({i \in 1..Len(s) : CreatedKey(s[i]) = k})
Descending(s) == \A i \in 1..(Len(s) - 1) : CreatedKey(s[i]) >= CreatedKey(s[i + 1])

\* C7 as claimed: with the recency criterion present the result is the 50 most
\* recent (creation timestamp descending, missing or zero last) among the records
\* that satisfy every other present criterion, the search term included.
C7_RecencyAfterEveryOtherPredicate ==
    (Filtered /\ args[1].recent # None /\ args[1].recent # Some(0)) =>
        LET a == args[1]
            Meets(m) == MeetsBasicCriteria(m, a) /\ MeetsSearch(m, a)
            matching == SelectSeq(all_models, Meets)
        IN  filtered_models[1] = Take(SortedByCreated(matching, Keys(matching)), RecentLimit)

\* C7 as amended: recency is applied after tools, vision, max price, min context
\* and providers but before the search term. The result is the records matching
\* the search term among the 50 most recent of those that satisfy the other
\* criteria, still in timestamp-descending order and at most 50 long.
C7_RecencyBeforeSearchTerm ==
    (Filtered /\ args[1].recent # None /\ args[1].recent # Some(0)) =>
        LET a == args[1]
            Basic(m) == MeetsBasicCriteria(m, a)
            Search(m) == MeetsSearch(m, a)
            matching == SelectSeq(all_models, Basic)
            recent == Take(SortedByCreated(matching, Keys(matching)), RecentLimit)
            oldest == CHOOSE k \in Keys(recent) : \A j \in Keys(recent) : k <= j
        IN  /\ filtered_models[1] = SelectSeq(recent, Search)
            /\ Len(filtered_models[1]) <= RecentLimit
            /\ Descending(filtered_models[1])
            /\ Len(recent) = Min(Len(matching), RecentLimit)
            /\ Descending(recent)
            /\ recent # <<>> =>
                  \A k \in Keys(matching) :
                      k > oldest => CountWithKey(recent, k) = CountWithKey(matching, k)

\* More than 50 records satisfy the other criteria, and a record matching the
\* search term is older than the 50 most recent, so that it is cut
C7_Witness ==
    /\ Filtered
    /\ args[1].recent = Some(30)
    /\ args[1].search # None
    /\ LET a == args[1]
           Basic(m) == MeetsBasicCriteria(m, a)
           Both(m) == MeetsBasicCriteria(m, a) /\ MeetsSearch(m, a)
       IN  /\ Len(SelectSeq(all_models, Basic)) > RecentLimit
           /\ SelectSeq(all_models, Both) # <<>>
           /\ filtered_models[1] = <<>>

\* C8: with the recency criterion absent the result is exactly the records of the
\* input, in input order, that satisfy every present criterion; with no criterion
\* at all it is the input; max price 0 leaves no positive-priced and no
\* price-less record.
C8_FilterIsConjunctionInOrder ==
    (Filtered /\ (args[1].recent = None \/ args[1].recent = Some(0))) =>
        LET a == args[1]
            Meets(m) == MeetsBasicCriteria(m, a) /\ MeetsSearch(m, a)
            out == filtered_models[1]
        IN  /\ out = SelectSeq(all_models, Meets)
            /\ (/\ ~a.tools /\ ~a.vision /\ ~a.reasoning
                /\ a.max_price = None /\ a.min_context = None
                /\ a.provider = None /\ a.search = None) => out = all_models
            /\ a.max_price = Some(0) =>
                  \A i \in 1..Len(out) :
                      out[i].pricing_prompt # None /\ out[i].pricing_prompt[1] <= 0

\* Max price 0 on a catalog that holds a free record and a priced or price-less one
C8_Witness ==
    /\ Filtered
    /\ args[1].recent = None
    /\ args[1].max_price = Some(0)
    /\ Len(all_models) >= 2
    /\ Len(filtered_models[1]) = 1
    /\ filtered_models[1][1].pricing_prompt = Some(0)

\* C9: the exporter writes exactly one entry per record, in order, entry i naming
\* the catalog identifier of record i as its upstream identifier, every entry
\* disabled and tagged Streaming.
C9_ExportOnePerRecordInOrder ==
    config_models # None =>
        LET out == config_models[1]
            L == filtered_models[1]
        IN  /\ Len(out) = Len(L)
            /\ \A i \in 1..Len(out) :
                  /\ out[i].modelId = L[i].id
                  /\ out[i].enabled = FALSE
                  /\ InList("Streaming", out[i].capabilities)

\* An export of two different records, one of them of no known provider
C9_Witness ==
    /\ config_models # None
    /\ Len(config_models[1]) >= 2
    /\ config_models[1][1].modelId # config_models[1][2].modelId
    /\ \E i \in 1..Len(config_models[1]) : config_models[1][i].provider = <<"U", "n", "k", "n", "o", "w", "n">>

\* C10 as claimed: "openai/gpt-4" yields "or-openai-gpt-4" and "or-custom/model"
\* is double-prefixed to "or-or-custom-model".
C10_DoublePrefix ==
    config_models # None =>
        \A i \in 1..Len(config_models[1]) :
            LET e == config_models[1][i]
            IN  /\ e.modelId = <<"o", "p", "e", "n", "a", "i", "/", "g", "p", "t", "-", "4">> => e.id = <<"o", "r", "-", "o", "p", "e", "n", "a", "i", "-", "g", "p", "t", "-", "4">>
                /\ e.modelId = <<"o", "r", "-", "c", "u", "s", "t", "o", "m", "/", "m", "o", "d", "e", "l">> => e.id = <<"o", "r", "-", "o", "r", "-", "c", "u", "s", "t", "o", "m", "-", "m", "o", "d", "e", "l">>

\* C10 as amended: "openai/gpt-4" yields "or-openai-gpt-4"; an identifier that
\* starts with "or-" after slash substitution gets no second prefix, so
\* "or-custom/model" yields "or-custom-model".
C10_PrefixAddedOnlyWhenMissing ==
    config_models # None =>
        \A i \in 1..Len(config_models[1]) :
            LET e == config_models[1][i]
            IN  /\ e.modelId = <<"o", "p", "e", "n", "a", "i", "/", "g", "p", "t", "-", "4">> => e.id = <<"o", "r", "-", "o", "p", "e", "n", "a", "i", "-", "g", "p", "t", "-", "4">>
                /\ e.modelId = <<"o", "r", "-", "c", "u", "s", "t", "o", "m", "/", "m", "o", "d", "e", "l">> => e.id = <<"o", "r", "-", "c", "u", "s", "t", "o", "m", "-", "m", "o", "d", "e", "l">>

\* An export that holds both identifiers
C10_Witness ==
    /\ config_models # None
    /\ \E i \in 1..Len(config_models[1]) : config_models[1][i].modelId = <<"o", "p", "e", "n", "a", "i", "/", "g", "p", "t", "-", "4">>
    /\ \E i \in 1..Len(config_models[1]) : config_models[1][i].modelId = <<"o", "r", "-", "c", "u", "s", "t", "o", "m", "/", "m", "o", "d", "e", "l">>

=============================================================================
